---- MODULE Spec2Model ----
(***************************************************************************)
(* Model of the Alphabet Alchemist decoder (src/main.py):                  *)
(*   MeasurementConverter._val / _parse_element / convert,                 *)
(*   DatabaseManager.store_conversion / get_history,                       *)
(*   the Flask handlers convert_measurements and get_history.              *)
(* Strings are sequences of one-character strings; cursors are 0-based as  *)
(* in the source, so the Python s[i] is s[i + 1] here.                      *)
(***************************************************************************)
EXTENDS Integers, Sequences, FiniteSets, TLC

VARIABLES
    input,        \* per call: the argument of convert as passed
    s,            \* per call: the local s after s.strip().lower()
    i,            \* per call: the cursor
    n,            \* per call: len(s)
    result,       \* per call: the output list
    count,        \* per call: the count element read last
    package_sum,  \* per call: the running sum of the inner loop
    read,         \* per call: number of value elements read for the package
    pc,           \* per call: position in convert
    trace,        \* per call: log of the elements read (fast path and scanner calls)
    ps,           \* scanner harness: the stream
    pi,           \* scanner harness: the cursor passed
    pout,         \* scanner harness: <<value, cursor>> returned, <<>> before the call
    db,           \* rows of conversion_history, in insertion order
    dbUp,         \* whether mysql.connector.connect succeeds
    reqs,         \* number of requests handled
    decodes,      \* number of convert calls made by the request handler
    lastReq,      \* the last /convert-measurements request and its response
    answered,     \* (input, output) pairs of requests answered with a sequence
    lastHist      \* the last /history response

convVars == <<input, s, i, n, result, count, package_sum, read, pc, trace>>
scanVars == <<ps, pi, pout>>
apiVars == <<db, dbUp, reqs, decodes, lastReq, answered, lastHist>>
vars == <<input, s, i, n, result, count, package_sum, read, pc, trace,
          ps, pi, pout, db, dbUp, reqs, decodes, lastReq, answered, lastHist>>

(***************************************************************************)
(* Bounds                                                                  *)
(***************************************************************************)
MaxLen == 4
MaxPad == 1
ConcMaxLen == 3
ScanMaxLen == 4
MaxRequests == 2

\* characters the inputs are drawn from
InputChars == {"_", "a", "z", "B"}
ConcChars == {"_", "b", "z"}
ScanChars == {"_", "a", "m", "y", "z"}

Calls == {1, 2}

(***************************************************************************)
(* Characters                                                              *)
(***************************************************************************)
Letters == <<"a", "b", "c", "d", "e", "f", "g", "h", "i", "j", "k", "l", "m",
             "n", "o", "p", "q", "r", "s", "t", "u", "v", "w", "x", "y", "z">>
Uppers == <<"A", "B", "C", "D", "E", "F", "G", "H", "I", "J", "K", "L", "M",
            "N", "O", "P", "Q", "R", "S", "T", "U", "V", "W", "X", "Y", "Z">>

IsIn(ch, seq) == \E k \in 1..Len(seq) : seq[k] = ch
IndexOf(ch, seq) == CHOOSE k \in 1..Len(seq) : seq[k] = ch

\* ord() on the characters of the model: space, A-Z, underscore, a-z
ord(ch) ==
    IF IsIn(ch, Letters) THEN 96 + IndexOf(ch, Letters)
    ELSE IF IsIn(ch, Uppers) THEN 64 + IndexOf(ch, Uppers)
    ELSE IF ch = "_" THEN 95
    ELSE 32

\* str.lower() on one character
lowerChar(ch) == IF IsIn(ch, Uppers) THEN Letters[IndexOf(ch, Uppers)] ELSE ch

lower(str) == [k \in 1..Len(str) |-> lowerChar(str[k])]

IsSpace(ch) == ch = " "

RECURSIVE lstrip(_)
lstrip(str) ==
    IF Len(str) > 0 /\ IsSpace(Head(str)) THEN lstrip(Tail(str)) ELSE str

RECURSIVE rstrip(_)
rstrip(str) ==
    IF Len(str) > 0 /\ IsSpace(str[Len(str)])
    THEN rstrip(SubSeq(str, 1, Len(str) - 1))
    ELSE str

strip(str) == rstrip(lstrip(str))

\* line 67: s = s.strip().lower()
normalize(str) == lower(strip(str))

(***************************************************************************)
(* MeasurementConverter._val                                               *)
(***************************************************************************)
_val(ch) == IF ch = "_" THEN 0 ELSE ord(ch) - ord("a") + 1

(***************************************************************************)
(* MeasurementConverter._parse_element: <<value, cursor>>                  *)
(***************************************************************************)
\* a z-run loop that consumes one 'z' only (an if in place of the while)
ZRunOnce(str, k, total) ==
    IF k < Len(str) /\ str[k + 1] = "z" THEN <<total + 26, k + 1>> ELSE <<total, k>>

\* lines 58-60: while i < len(s) and s[i] == 'z': total += 26; i += 1
RECURSIVE ZRun(_, _, _)
ZRun(str, k, total) ==
    IF k < Len(str) /\ str[k + 1] = "z"
    THEN ZRun(str, k + 1, total + 26)
    ELSE <<total, k>>

\* the character after the run consumed without the length test of line 61
ZTailUnguarded(str, r) ==
    IF r[2] < Len(str)
    THEN <<r[1] + _val(str[r[2] + 1]), r[2] + 1>>
    ELSE <<r[1], r[2] + 1>>

\* lines 61-64: the character after the run, if any
ZTail(str, r) ==
    IF r[2] < Len(str)
    THEN <<r[1] + _val(str[r[2] + 1]), r[2] + 1>>
    ELSE r

\* a simple element returned without advancing the cursor
SimpleElementStuck(str, k) == <<_val(str[k + 1]), k>>

\* line 54: return self._val(s[i]), i + 1
SimpleElement(str, k) == <<_val(str[k + 1]), k + 1>>

_parse_element(str, k) ==
    IF k >= Len(str) THEN <<0, k>>
    ELSE IF str[k + 1] # "z" THEN SimpleElement(str, k)
    ELSE ZTail(str, ZRun(str, k, 0))

(***************************************************************************)
(* MeasurementConverter.convert, one step per loop test                    *)
(***************************************************************************)
Pad(k) == [j \in 1..k |-> " "]
StringsOver(chars, maxLen) == UNION {[1..k -> chars] : k \in 0..maxLen}


Event(kind, at, val, ret) == [kind |-> kind, at |-> at, val |-> val, ret |-> ret]

\* the frame holding the cursor of call c: i is a local of convert
CursorShared(c) == 1
CursorOf(c) == c

cur(c) == i[CursorOf(c)]
SetCur(c, k) == i' = [i EXCEPT ![CursorOf(c)] = k]

\* lines 67-70: the parameter s is rebound to its normalized form
Start(c) ==
    /\ pc[c] = "entry"
    /\ s' = [s EXCEPT ![c] = normalize(s[c])]
    /\ SetCur(c, 0)
    /\ n' = [n EXCEPT ![c] = Len(normalize(s[c]))]
    /\ result' = [result EXCEPT ![c] = <<>>]
    /\ pc' = [pc EXCEPT ![c] = "loop"]
    /\ UNCHANGED <<input, count, package_sum, read, trace>>

\* the sentinel test comparing with the wrong character
IsSentinelDash(ch) == ch = "-"

\* line 74: s[i] == "_"
IsSentinel(ch) == ch = "_"

\* the sentinel consumed without a package
FastPathSilent(c) ==
    /\ pc[c] = "loop"
    /\ cur(c) < n[c]
    /\ IsSentinel(s[c][cur(c) + 1])
    /\ SetCur(c, cur(c) + 1)
    /\ trace' = [trace EXCEPT ![c] = Append(@, Event("fast", cur(c), 0, cur(c) + 1))]
    /\ UNCHANGED <<input, s, n, result, count, package_sum, read, pc>>

\* lines 72-77: the sentinel at the count position
FastPath(c) ==
    /\ pc[c] = "loop"
    /\ cur(c) < n[c]
    /\ IsSentinel(s[c][cur(c) + 1])
    /\ result' = [result EXCEPT ![c] = Append(@, 0)]
    /\ SetCur(c, cur(c) + 1)
    /\ trace' = [trace EXCEPT ![c] = Append(@, Event("fast", cur(c), 0, cur(c) + 1))]
    /\ UNCHANGED <<input, s, n, count, package_sum, read, pc>>

\* lines 72, 79-87: read the count; a zero count appends a zero package
ReadCount(c) ==
    /\ pc[c] = "loop"
    /\ cur(c) < n[c]
    /\ ~IsSentinel(s[c][cur(c) + 1])
    /\ LET e == _parse_element(s[c], cur(c)) IN
        /\ count' = [count EXCEPT ![c] = e[1]]
        /\ SetCur(c, e[2])
        /\ trace' = [trace EXCEPT ![c] = Append(@, Event("count", cur(c), e[1], e[2]))]
        /\ IF e[1] = 0
           THEN /\ result' = [result EXCEPT ![c] = Append(@, 0)]
                /\ UNCHANGED <<package_sum, read, pc>>
           ELSE /\ package_sum' = [package_sum EXCEPT ![c] = 0]
                /\ read' = [read EXCEPT ![c] = 0]
                /\ pc' = [pc EXCEPT ![c] = "values"]
                /\ UNCHANGED result
    /\ UNCHANGED <<input, s, n>>

\* the inner loop test without the end-of-stream test
InnerGuardNoEnd(c) == read[c] < count[c]

\* the inner loop test reading one element too many
InnerGuardOneMore(c) == read[c] <= count[c] /\ cur(c) < n[c]

\* line 88: while read < count and i < n
InnerGuard(c) == read[c] < count[c] /\ cur(c) < n[c]

\* lines 89-91
ReadValue(c) ==
    /\ pc[c] = "values"
    /\ InnerGuard(c)
    /\ LET e == _parse_element(s[c], cur(c)) IN
        /\ SetCur(c, e[2])
        /\ package_sum' = [package_sum EXCEPT ![c] = @ + e[1]]
        /\ read' = [read EXCEPT ![c] = @ + 1]
        /\ trace' = [trace EXCEPT ![c] = Append(@, Event("value", cur(c), e[1], e[2]))]
    /\ UNCHANGED <<input, s, n, result, count, pc>>

\* line 94
AppendPackage(c) ==
    /\ pc[c] = "values"
    /\ ~InnerGuard(c)
    /\ result' = [result EXCEPT ![c] = Append(@, package_sum[c])]
    /\ pc' = [pc EXCEPT ![c] = "loop"]
    /\ UNCHANGED <<input, s, i, n, count, package_sum, read, trace>>

\* lines 72, 96
Return(c) ==
    /\ pc[c] = "loop"
    /\ cur(c) >= n[c]
    /\ pc' = [pc EXCEPT ![c] = "done"]
    /\ UNCHANGED <<input, s, i, n, result, count, package_sum, read, trace>>

\* the calls in `active' are at the entry of convert, each with its argument
\* in the parameter s; the other calls are never made
ConvEntry(active, args) ==
    /\ input = [c \in Calls |-> IF c \in active THEN args[c] ELSE <<>>]
    /\ s = input
    /\ i = [c \in Calls |-> 0]
    /\ n = [c \in Calls |-> 0]
    /\ result = [c \in Calls |-> <<>>]
    /\ count = [c \in Calls |-> 0]
    /\ package_sum = [c \in Calls |-> 0]
    /\ read = [c \in Calls |-> 0]
    /\ pc = [c \in Calls |-> IF c \in active THEN "entry" ELSE "idle"]
    /\ trace = [c \in Calls |-> <<>>]

ScanIdle ==
    /\ ps = <<>>
    /\ pi = 0
    /\ pout = <<>>

NoArg == [present |-> FALSE, value |-> <<>>]
Arg(str) == [present |-> TRUE, value |-> str]
NoResponse == [status |-> 0, error |-> "", data |-> <<>>]
NoHistory == [served |-> 0, at |-> 0, total_records |-> 0, history |-> <<>>]

ApiIdle ==
    /\ db = <<>>
    /\ dbUp = TRUE
    /\ reqs = 0
    /\ decodes = 0
    /\ lastReq = [arg |-> NoArg, response |-> NoResponse]
    /\ answered = <<>>
    /\ lastHist = NoHistory

\* one call of convert, its argument drawn from Inputs
Init ==
    /\ \E k \in 0..MaxLen, l \in 0..MaxPad, t \in 0..MaxPad :
           \E b \in [1..k -> InputChars] :
               ConvEntry({1}, [c \in Calls |-> Pad(l) \o b \o Pad(t)])
    /\ ScanIdle
    /\ ApiIdle

\* one convert call
Next ==
    \/ Start(1) /\ UNCHANGED <<scanVars, apiVars>>
    \/ FastPath(1) /\ UNCHANGED <<scanVars, apiVars>>
    \/ ReadCount(1) /\ UNCHANGED <<scanVars, apiVars>>
    \/ ReadValue(1) /\ UNCHANGED <<scanVars, apiVars>>
    \/ AppendPackage(1) /\ UNCHANGED <<scanVars, apiVars>>
    \/ Return(1) /\ UNCHANGED <<scanVars, apiVars>>

Spec == Init /\ [][Next]_vars

(***************************************************************************)
(* Two concurrent calls of convert on the shared converter instance        *)
(***************************************************************************)
InitConc ==
    /\ \E a \in [Calls -> StringsOver(ConcChars, ConcMaxLen)] : ConvEntry(Calls, a)
    /\ ScanIdle
    /\ ApiIdle

NextConc ==
    \E c \in Calls :
        \/ Start(c) /\ UNCHANGED <<scanVars, apiVars>>
        \/ FastPath(c) /\ UNCHANGED <<scanVars, apiVars>>
        \/ ReadCount(c) /\ UNCHANGED <<scanVars, apiVars>>
        \/ ReadValue(c) /\ UNCHANGED <<scanVars, apiVars>>
        \/ AppendPackage(c) /\ UNCHANGED <<scanVars, apiVars>>
        \/ Return(c) /\ UNCHANGED <<scanVars, apiVars>>

SpecConc == InitConc /\ [][NextConc]_vars

(***************************************************************************)
(* The scanner applied to a stream and a cursor                            *)
(***************************************************************************)
InitScan ==
    /\ ConvEntry({}, [c \in Calls |-> <<>>])
    /\ ApiIdle
    /\ ps \in StringsOver(ScanChars, ScanMaxLen)
    /\ pi \in 0..Len(ps)
    /\ pout = <<>>

Scan ==
    /\ pout = <<>>
    /\ pout' = _parse_element(ps, pi)
    /\ UNCHANGED <<ps, pi, convVars, apiVars>>

NextScan == Scan

SpecScan == InitScan /\ [][NextScan]_vars

\* one call of convert, its argument padded alike on both sides
InitFair ==
    /\ \E k \in 0..MaxLen, l \in 0..MaxPad :
           \E b \in [1..k -> InputChars] :
               ConvEntry({1}, [c \in Calls |-> Pad(l) \o b \o Pad(l)])
    /\ ScanIdle
    /\ ApiIdle

\* a call that has started runs to its return
FairSpec == InitFair /\ [][Next]_vars /\ WF_vars(Next)

TypeOK ==
    /\ \A c \in Calls : pc[c] \in {"idle", "entry", "loop", "values", "done"}
    /\ \A c \in Calls : i[c] \in Nat

(***************************************************************************)
(* convert as a function of its argument (lines 66-96)                     *)
(***************************************************************************)
\* lines 86-91: <<package_sum, cursor>> after the inner loop
RECURSIVE ReadValues(_, _, _, _, _)
ReadValues(str, k, cnt, rd, sum) ==
    IF rd < cnt /\ k < Len(str)
    THEN LET e == _parse_element(str, k)
         IN ReadValues(str, e[2], cnt, rd + 1, sum + e[1])
    ELSE <<sum, k>>

\* lines 72-96
RECURSIVE ConvertLoop(_, _, _)
ConvertLoop(str, k, res) ==
    IF k >= Len(str) THEN res
    ELSE IF IsSentinel(str[k + 1]) THEN ConvertLoop(str, k + 1, Append(res, 0))
    ELSE LET e == _parse_element(str, k) IN
         IF e[1] = 0 THEN ConvertLoop(str, e[2], Append(res, 0))
         ELSE LET p == ReadValues(str, e[2], e[1], 0, 0)
              IN ConvertLoop(str, p[2], Append(res, p[1]))

convert(raw) == ConvertLoop(normalize(raw), 0, <<>>)

(***************************************************************************)
(* json.dumps / json.loads on lists of non-negative integers               *)
(***************************************************************************)
Digits == <<"0", "1", "2", "3", "4", "5", "6", "7", "8", "9">>

RECURSIVE ToDigits(_)
ToDigits(k) ==
    IF k < 10 THEN <<Digits[k + 1]>>
    ELSE ToDigits(k \div 10) \o <<Digits[(k % 10) + 1]>>

RECURSIVE JoinItems(_)
JoinItems(list) ==
    IF list = <<>> THEN <<>>
    ELSE IF Len(list) = 1 THEN ToDigits(list[1])
    ELSE ToDigits(list[1]) \o <<",", " ">> \o JoinItems(Tail(list))

\* json.dumps(result): "[0, 27]"
json_dumps(list) == <<"[">> \o JoinItems(list) \o <<"]">>

\* acc < 0: no digit of the current item read yet
RECURSIVE ParseItems(_, _, _, _)
ParseItems(text, k, acc, items) ==
    IF k > Len(text) THEN items
    ELSE IF text[k] = "]" THEN (IF acc < 0 THEN items ELSE Append(items, acc))
    ELSE IF text[k] = "," THEN ParseItems(text, k + 1, -1, Append(items, acc))
    ELSE IF text[k] \in {"[", " "} THEN ParseItems(text, k + 1, acc, items)
    ELSE ParseItems(text, k + 1,
                    (IF acc < 0 THEN 0 ELSE acc) * 10 + IndexOf(text[k], Digits) - 1,
                    items)

\* json.loads(r["output_result"])
json_loads(text) == ParseItems(text, 1, -1, <<>>)

(***************************************************************************)
(* DatabaseManager and the Flask handlers                                  *)
(***************************************************************************)
\* line 155: def get_history(self, limit=100)
HistoryLimit == 100

\* lines 141-153: the insert, or the logged error when the connection fails
store_conversion(rows, up, input_string, res) ==
    IF up
    THEN Append(rows, [id |-> Len(rows) + 1,
                       input_string |-> input_string,
                       output_result |-> json_dumps(res)])
    ELSE rows

\* lines 155-174: ORDER BY id DESC LIMIT limit, or [] when the connection fails
get_history(rows, up, limit) ==
    IF up
    THEN [k \in 1..(IF limit < Len(rows) THEN limit ELSE Len(rows)) |->
             LET r == rows[Len(rows) - k + 1]
             IN [id |-> r.id, input |-> r.input_string,
                 output |-> json_loads(r.output_result)]]
    ELSE <<>>

\* line 185: request.args.get("input", "")
ArgsGet(arg) == IF arg.present THEN arg.value ELSE <<>>

\* the parameter test accepting every string
IsFalsyNever(str) == FALSE

\* line 186: not input_string
IsFalsy(str) == str = <<>>

\* the input parameter of a request: absent, empty, blank, or a string
ApiArgs ==
    {NoArg, Arg(<<>>), Arg(<<" ">>), Arg(<<"_">>), Arg(<<"a", "b">>),
     Arg(<<"B", "z", "a", "_">>)}

\* lines 183-194; convert raises for no string of the model, so the
\* except branch (status 500) is not taken
convert_measurements(arg) ==
    /\ reqs < MaxRequests
    /\ reqs' = reqs + 1
    /\ LET input_string == ArgsGet(arg) IN
        IF IsFalsy(input_string)
        THEN /\ lastReq' = [arg |-> arg,
                            response |-> [status |-> 400,
                                          error |-> "Input parameter is required",
                                          data |-> <<>>]]
             /\ UNCHANGED <<db, decodes, answered>>
        ELSE LET res == convert(input_string) IN
             /\ decodes' = decodes + 1
             /\ db' = store_conversion(db, dbUp, input_string, res)
             /\ lastReq' = [arg |-> arg,
                            response |-> [status |-> 200, error |-> "", data |-> res]]
             /\ answered' = Append(answered, <<input_string, res>>)
    /\ UNCHANGED <<dbUp, lastHist, convVars, scanVars>>

\* lines 196-199
history_endpoint ==
    /\ LET history == get_history(db, dbUp, HistoryLimit) IN
        lastHist' = [served |-> 1, at |-> Len(db),
                     total_records |-> Len(history), history |-> history]
    /\ lastHist' # lastHist
    /\ UNCHANGED <<db, dbUp, reqs, decodes, lastReq, answered, convVars, scanVars>>

\* lines 111-112: mysql.connector.connect starts to raise
DbFail ==
    /\ dbUp
    /\ dbUp' = FALSE
    /\ UNCHANGED <<db, reqs, decodes, lastReq, answered, lastHist, convVars, scanVars>>

\* lines 111-112: mysql.connector.connect succeeds again
DbRecover ==
    /\ ~dbUp
    /\ dbUp' = TRUE
    /\ UNCHANGED <<db, reqs, decodes, lastReq, answered, lastHist, convVars, scanVars>>

\* rows left in the table by earlier runs of the service
PreRows(k) ==
    [j \in 1..k |-> [id |-> j, input_string |-> <<"_">>,
                     output_result |-> json_dumps(<<0>>)]]

InitApi ==
    /\ ConvEntry({}, [c \in Calls |-> <<>>])
    /\ ScanIdle
    /\ db \in {PreRows(0), PreRows(HistoryLimit - 1)}
    /\ dbUp = TRUE
    /\ reqs = 0
    /\ decodes = 0
    /\ lastReq = [arg |-> NoArg, response |-> NoResponse]
    /\ answered = <<>>
    /\ lastHist = NoHistory

NextApi ==
    \/ \E arg \in ApiArgs : convert_measurements(arg)
    \/ history_endpoint
    \/ DbFail
    \/ DbRecover

SpecApi == InitApi /\ [][NextApi]_vars

(***************************************************************************)
(* Properties of convert                                                   *)
(***************************************************************************)
IsCountEvent(e) == e.kind \in {"fast", "count"}
IsScanEvent(e) == e.kind \in {"count", "value"}
CountEvents(c) == SelectSeq(trace[c], IsCountEvent)
ScanEvents(c) == SelectSeq(trace[c], IsScanEvent)
Zeros(k) == [j \in 1..k |-> 0]
Min(a, b) == IF a < b THEN a ELSE b

RECURSIVE SumSeq(_)
SumSeq(q) == IF q = <<>> THEN 0 ELSE Head(q) + SumSeq(Tail(q))

\* the values of the elements that can still be scanned from cursor k on
RECURSIVE ElementsFrom(_, _)
ElementsFrom(str, k) ==
    IF k >= Len(str) THEN <<>>
    ELSE LET e == _parse_element(str, k)
         IN <<e[1]>> \o ElementsFrom(str, e[2])

\* the sum of the next min(cnt, k) elements, k the elements still scannable
SumNext(str, k, cnt) ==
    LET els == ElementsFrom(str, k)
    IN SumSeq(SubSeq(els, 1, Min(cnt, Len(els))))

\* the machine and the function agree on the result of a call
MachineIsConvert ==
    \A c \in Calls : pc[c] = "done" => result[c] = convert(input[c])

\* C1: every count element with value c > 0 gets exactly one package, the sum
\* of the next min(c, k) elements scanned, k the number of elements still
\* scannable after the count; the package is 0 when the count ends the stream.
PackageIsSumOfNext ==
    \A c \in Calls :
        LET ce == CountEvents(c) IN
        /\ pc[c] \in {"loop", "done"} => Len(result[c]) = Len(ce)
        /\ pc[c] = "values" => Len(result[c]) = Len(ce) - 1
        /\ \A k \in 1..Len(result[c]) :
               (ce[k].kind = "count" /\ ce[k].val > 0) =>
                   /\ result[c][k] = SumNext(s[c], ce[k].ret, ce[k].val)
                   /\ ce[k].ret = n[c] => result[c][k] = 0

PackageWitness ==
    /\ pc[1] = "done"
    /\ \E k \in 1..Len(result[1]) :
           LET e == CountEvents(1)[k] IN
           /\ e.kind = "count"
           /\ e.val = 2
           /\ Len(ElementsFrom(s[1], e.ret)) > 2
           /\ result[1][k] > 2
    /\ CountEvents(1)[Len(result[1])].kind = "count"
    /\ CountEvents(1)[Len(result[1])].ret = n[1]

\* C3: convert terminates: every outer iteration starts at a cursor beyond the
\* previous one and advances it, there are at most n iterations, and the call
\* ends with the cursor at n.
ConvertTerminates ==
    /\ [](\A c \in Calls :
            LET ce == CountEvents(c) IN
            /\ Len(ce) <= n[c]
            /\ \A k \in 1..Len(ce) : ce[k].ret > ce[k].at
            /\ \A k \in 2..Len(ce) : ce[k].at > ce[k - 1].at)
    /\ <>(pc[1] = "done" /\ i[1] = n[1])

TerminatesWitness ==
    /\ pc[1] = "done"
    /\ n[1] = MaxLen
    /\ Len(CountEvents(1)) = 2
    /\ Len(ScanEvents(1)) = 3

\* C4: the cursor stays within 0..len(s), never decreases, no position is
\* consumed twice, and the stream does not change after normalization.
CursorMonotonic ==
    /\ [](\A c \in Calls :
            /\ 0 <= i[c] /\ i[c] <= n[c]
            /\ pc[c] \notin {"idle", "entry"} => n[c] = Len(s[c])
            /\ \A k \in 1..Len(trace[c]) :
                   /\ trace[c][k].at <= trace[c][k].ret
                   /\ k > 1 => trace[c][k].at >= trace[c][k - 1].ret)
    /\ [][\A c \in Calls :
            /\ i'[c] >= i[c]
            /\ pc[c] \notin {"idle", "entry"} => s'[c] = s[c]]_vars

CursorWitness ==
    /\ pc[1] = "values"
    /\ i[1] = n[1]
    /\ n[1] >= 3
    /\ \E k \in 1..Len(trace[1]) : trace[1][k].ret - trace[1][k].at >= 3

\* C5: a string of N underscores decodes to N zeros.
AllSentinel(str) == \A k \in 1..Len(str) : str[k] = "_"

SentinelsGiveZeros ==
    \A c \in Calls :
        (pc[c] = "done" /\ AllSentinel(input[c])) =>
            result[c] = Zeros(Len(input[c]))

SentinelsWitness ==
    /\ pc[1] = "done"
    /\ AllSentinel(input[1])
    /\ Len(input[1]) = MaxLen
    /\ result[1] = Zeros(MaxLen)

\* the decoder with the fast path removed: a sentinel at the count position
\* is read by the scanner and handled by the count == 0 branch
RECURSIVE UnifiedLoop(_, _, _)
UnifiedLoop(str, k, res) ==
    IF k >= Len(str) THEN res
    ELSE LET e == _parse_element(str, k) IN
         IF e[1] = 0 THEN UnifiedLoop(str, e[2], Append(res, 0))
         ELSE LET p == ReadValues(str, e[2], e[1], 0, 0)
              IN UnifiedLoop(str, p[2], Append(res, p[1]))

\* C9: the fast path is redundant: convert returns what the decoder without
\* the fast path returns, and the count == 0 branch of convert is never taken.
FastPathRedundant ==
    \A c \in Calls :
        /\ pc[c] = "done" => result[c] = UnifiedLoop(s[c], 0, <<>>)
        /\ \A k \in 1..Len(trace[c]) :
               ~(trace[c][k].kind = "count" /\ trace[c][k].val = 0)

FastPathWitness ==
    /\ pc[1] = "done"
    /\ \E j, k \in 1..Len(trace[1]) :
           /\ j < k
           /\ trace[1][j].kind = "fast"
           /\ trace[1][k].kind = "value"
           /\ trace[1][k].val = 0
    /\ trace[1][Len(trace[1])].kind = "fast"

\* C10: the scanner is never called with the cursor at or past the end of the
\* stream, and every call consumes at least one character.
ScannerNeverExhausted ==
    \A c \in Calls :
        \A k \in 1..Len(trace[c]) :
            IsScanEvent(trace[c][k]) =>
                /\ trace[c][k].at < n[c]
                /\ trace[c][k].ret > trace[c][k].at

ScannerWitness ==
    /\ pc[1] = "done"
    /\ Len(ScanEvents(1)) >= 3
    /\ count[1] > read[1]
    /\ read[1] >= 1

\* C6: interleaved calls each return what the call returns when run alone,
\* and no step of one call changes a local of another call.
LocalsOf(c) ==
    <<s[c], i[c], n[c], result[c], count[c], package_sum[c], read[c], pc[c], trace[c]>>

ConcurrentCallsIndependent ==
    /\ [](\A c \in Calls : pc[c] = "done" => result[c] = convert(input[c]))
    /\ [][\A c, d \in Calls :
            (c # d /\ (pc'[c] # pc[c] \/ trace'[c] # trace[c])) =>
                LocalsOf(d)' = LocalsOf(d)]_vars

ConcurrentWitness ==
    /\ pc[1] = "done"
    /\ pc[2] = "done"
    /\ Len(trace[1]) >= 2
    /\ Len(trace[2]) >= 2
    /\ result[1] # result[2]
    /\ \E k \in 1..Len(result[1]) : result[1][k] > 0

(***************************************************************************)
(* Properties of the scanner                                               *)
(***************************************************************************)
\* the length of the maximal run of 'z' starting at cursor k
RunLen(str, k) ==
    CHOOSE r \in 1..(Len(str) - k) :
        /\ \A j \in k..(k + r - 1) : str[j + 1] = "z"
        /\ k + r = Len(str) \/ str[k + r + 1] # "z"

\* 0 for '_', 1..25 for 'a'..'y'
SimpleValue(ch) == IF ch = "_" THEN 0 ELSE IndexOf(ch, Letters)

\* C2: at a 'z' the scanner returns 26 * k + v and the cursor after the
\* element, k the length of the maximal z-run, v the simple value (0..25) of
\* the character after the run if there is one and 0 at the end of the stream.
ZRunElement ==
    (pout # <<>> /\ pi < Len(ps) /\ ps[pi + 1] = "z") =>
        LET k == RunLen(ps, pi) IN
        IF pi + k < Len(ps)
        THEN /\ ps[pi + k + 1] # "z"
             /\ SimpleValue(ps[pi + k + 1]) \in 0..25
             /\ pout = <<26 * k + SimpleValue(ps[pi + k + 1]), pi + k + 1>>
        ELSE pout = <<26 * k, Len(ps)>>

ZRunWitness ==
    /\ pout # <<>>
    /\ pi = 1
    /\ Len(ps) = 4
    /\ ps[2] = "z"
    /\ ps[3] = "z"
    /\ ps[4] = "y"
    /\ pout = <<77, 4>>

(***************************************************************************)
(* Properties of the request handlers                                      *)
(***************************************************************************)
IsPrefix(a, b) == Len(a) <= Len(b) /\ SubSeq(b, 1, Len(a)) = a

\* the most recent `limit' rows of the table, newest first
MostRecent(rows, limit) ==
    [k \in 1..Min(limit, Len(rows)) |->
        [id |-> rows[Len(rows) - k + 1].id,
         input |-> rows[Len(rows) - k + 1].input_string,
         output |-> json_loads(rows[Len(rows) - k + 1].output_result)]]

\* C7: every request answered with a decoded sequence has its (input, output)
\* pair appended to the log, rows are never changed or removed, and /history
\* returns the most recent 100 rows, newest first.
HistoryComplete ==
    /\ [](/\ Len(answered) <= Len(db)
          /\ \A k \in 1..Len(answered) :
                 LET r == db[Len(db) - Len(answered) + k] IN
                 /\ r.input_string = answered[k][1]
                 /\ json_loads(r.output_result) = answered[k][2])
    /\ [](lastHist.served = 1 =>
             lastHist.history = MostRecent(SubSeq(db, 1, lastHist.at), HistoryLimit))
    /\ [][IsPrefix(db, db')]_vars

\* C8: a request whose input parameter is missing or empty is answered with
\* status 400, runs no decode and leaves the log unchanged.
EmptyInputRejected ==
    [][(reqs' = reqs + 1 /\ (~lastReq'.arg.present \/ lastReq'.arg.value = <<>>)) =>
          /\ lastReq'.response.status = 400
          /\ lastReq'.response.error # ""
          /\ decodes' = decodes
          /\ db' = db
          /\ answered' = answered]_vars

EmptyInputWitness ==
    /\ lastReq.arg = Arg(<<>>)
    /\ lastReq.response.status = 400
    /\ reqs = 2
    /\ decodes = 1
    /\ Len(db) = 1
====
